---- MODULE Spec2Model ----
(***************************************************************************)
(* pdrng: a seed-based deterministic number generator (index.js).          *)
(*                                                                         *)
(* The library is a set of pure functions.  Each public function first     *)
(* normalizes options.seed and then derives its result from the digits of  *)
(* the normalized seed.  The model is a call harness: a state holds one    *)
(* call (operation and arguments), the normalized seed the call computed   *)
(* and the value it returned.                                              *)
(*                                                                         *)
(* JavaScript values are represented as follows.                           *)
(*   - A decimal string (String(n) of a non-negative integer) is the       *)
(*     sequence of its digits, most significant first.                     *)
(*   - A text seed is the sequence of its UTF-16 char codes                *)
(*     (str.charCodeAt(i)).                                                *)
(*   - A raw seed is a record: tag "undefined", "null", "string" (field    *)
(*     text) or "number" (fields neg, int, frac: the sign, the integer     *)
(*     part and the digits after the decimal point of its magnitude, so    *)
(*     -42.5 is neg = TRUE, int = 42, frac = <<5>>).                       *)
(*   - An optional argument is a sequence of length 0 (omitted) or 1.      *)
(*   - A number is an integer of the model; the result of a fill of more   *)
(*     than nine digits is a double, kept as the digits of its exact       *)
(*     value (see DoubleOf), and NaN is the string "NaN".                  *)
(***************************************************************************)
EXTENDS Integers, Sequences, FiniteSets, TLC

VARIABLES pc, call, seed, ret, saved

vars == <<pc, call, seed, ret, saved>>

(***************************************************************************)
(* Bounds of the model.                                                    *)
(***************************************************************************)
\* integer seeds 0..MaxSeed are drawn (plus the ExtraSeeds below)
MaxSeed == 130
\* digit counts -1..MaxDigits are drawn
MaxDigits == 8
\* text seeds over Alphabet up to this length are drawn
MaxTextLen == 3
\* range bounds are drawn from MinBound..MaxBound (plus ExtraRanges)
MaxBound == 4
\* dice are drawn with 1..MaxSides sides (plus 20)
MaxSides == 8
\* arrays of 0..MaxCount elements are drawn
MaxCount == 3

(***************************************************************************)
(* index.js:22                                                             *)
(***************************************************************************)
DEFAULT_SEED == 814

(***************************************************************************)
(* String(n) for an integer n >= 0: its decimal digits.                    *)
(***************************************************************************)
RECURSIVE StrOf(_)
StrOf(n) ==
    IF n < 10 THEN <<n>> ELSE Append(StrOf(n \div 10), n % 10)

(***************************************************************************)
(* Number(str) for a string of decimal digits: leading zeros carry no      *)
(* value and Number('') is 0.                                              *)
(***************************************************************************)
RECURSIVE NumOf(_)
NumOf(str) ==
    IF str = <<>> THEN 0
    ELSE NumOf(SubSeq(str, 1, Len(str) - 1)) * 10 + str[Len(str)]

(***************************************************************************)
(* str.padStart(n, '0') for a numeric string.                              *)
(***************************************************************************)
Zeros(n) == [i \in 1..n |-> 0]

PadStart(str, n) ==
    IF Len(str) >= n THEN str ELSE Zeros(n - Len(str)) \o str

RECURSIVE StripZeros(_)
StripZeros(d) ==
    IF Len(d) > 1 /\ d[1] = 0 THEN StripZeros(Tail(d)) ELSE d

RECURSIVE StripTrailingZeros(_)
StripTrailingZeros(str) ==
    IF str # <<>> /\ str[Len(str)] = 0
    THEN StripTrailingZeros(SubSeq(str, 1, Len(str) - 1))
    ELSE str

(***************************************************************************)
(* Numbers beyond the integers of the model.  A JavaScript number is an    *)
(* IEEE 754 double: an integer of more than 53 bits is rounded to the      *)
(* nearest double (ties to the even mantissa).  Such a number is kept as   *)
(* the sequence of the decimal digits of its exact value, without leading  *)
(* zeros.  The arithmetic is done on limbs: the number as a sequence of    *)
(* groups of nine digits, most significant first.                          *)
(***************************************************************************)
\* an integer of up to IntDigits digits is an integer of the model
IntDigits == 9

Base == 1000000000

\* the limbs of a digit string, with one leading zero limb of headroom
Limbs(d) ==
    LET n == ((Len(d) + 8) \div 9) + 1
        p == PadStart(d, 9 * n)
    IN  [i \in 1..n |-> NumOf(SubSeq(p, 9 * i - 8, 9 * i))]

RECURSIVE Concat(_)
Concat(strs) == IF strs = <<>> THEN <<>> ELSE Head(strs) \o Concat(Tail(strs))

DigitsOf(l) == StripZeros(Concat([i \in 1..Len(l) |-> PadStart(StrOf(l[i]), 9)]))

IsOdd(l) == l[Len(l)] % 2 = 1

\* floor(l / 2)
Half(l) ==
    [i \in 1..Len(l) |-> ((IF i > 1 THEN (l[i - 1] % 2) * Base ELSE 0) + l[i]) \div 2]

\* l * 2
Twice(l) ==
    [i \in 1..Len(l) |->
        (2 * l[i] + (IF i < Len(l) /\ 2 * l[i + 1] >= Base THEN 1 ELSE 0)) % Base]

\* l + 1
RECURSIVE Succ(_)
Succ(l) ==
    IF l[Len(l)] < Base - 1 THEN [l EXCEPT ![Len(l)] = @ + 1]
    ELSE Append(Succ(SubSeq(l, 1, Len(l) - 1)), 0)

\* a < b, for as many limbs in a as in b
Less(a, b) ==
    \E k \in 1..Len(a) :
        /\ a[k] < b[k]
        /\ \A j \in 1..(k - 1) : a[j] = b[j]

\* 2^53 = 9007199254740992 in n >= 2 limbs: the integers below it are doubles
Two53(n) == Zeros(n - 2) \o <<9007199, 254740992>>

RECURSIVE Scale(_, _)
Scale(m, e) == IF e = 0 THEN m ELSE Scale(Twice(m), e - 1)

\* the double nearest to v * 2^e + (the bits shifted out so far): half is the
\* last bit shifted out, sticky tells whether a bit before it was set
RECURSIVE Round(_, _, _, _)
Round(v, e, half, sticky) ==
    IF Less(v, Two53(Len(v)))
    THEN Scale(IF half /\ (sticky \/ IsOdd(v)) THEN Succ(v) ELSE v, e)
    ELSE Round(Half(v), e + 1, IsOdd(v), sticky \/ half)

\* Number(str) for a string of decimal digits, as a double
DoubleOf(str) == DigitsOf(Round(Limbs(str), 0, FALSE, FALSE))

(***************************************************************************)
(* String(n) for a double n (Number::toString): the fewest significant     *)
(* digits that read back as n, the nearest to n of these, and then zeros   *)
(* up to the magnitude; from 10^21 on in exponent notation, d.ddde+x.      *)
(* The characters '.', 'e' and '+' of a numeric string are 10, 11 and 12.  *)
(***************************************************************************)
Dot == 10

Exp == 11

Plus == 12

\* n cut to k significant digits, rounded down and rounded up
Below(n, k) == SubSeq(n, 1, k) \o Zeros(Len(n) - k)

Above(n, k) ==
    LET cut == SubSeq(n, 1, k)
    IN  (IF cut = [i \in 1..k |-> 9] THEN <<1>> \o Zeros(k)
         ELSE DigitsOf(Succ(Limbs(cut)))) \o Zeros(Len(n) - k)

ReadsBack(str, n) ==
    LET l == Limbs(str)
    IN  Len(l) = Len(Limbs(n)) /\ Round(l, 0, FALSE, FALSE) = Limbs(n)

RECURSIVE FewestDigits(_, _)
FewestDigits(n, k) ==
    IF k >= Len(n) \/ ReadsBack(Below(n, k), n) \/ ReadsBack(Above(n, k), n)
    THEN k
    ELSE FewestDigits(n, k + 1)

Nearest(n, k) ==
    LET rest == SubSeq(n, k + 1, Len(n))
        half == rest # <<>> /\ rest[1] = 5 /\ Tail(rest) = Zeros(Len(rest) - 1)
        up   == rest # <<>> /\ (IF half THEN n[k] % 2 = 1 ELSE rest[1] >= 5)
    IN  IF k >= Len(n) THEN n
        ELSE IF ~ReadsBack(Below(n, k), n) THEN Above(n, k)
        ELSE IF ~ReadsBack(Above(n, k), n) THEN Below(n, k)
        ELSE IF up THEN Above(n, k) ELSE Below(n, k)

Shortest(n) == Nearest(n, FewestDigits(n, 1))

Exponential(s, m) ==
    <<m[1]>> \o (IF Len(m) > 1 THEN <<Dot>> \o Tail(m) ELSE <<>>)
    \o <<Exp, Plus>> \o StrOf(Len(s) - 1)

StringOfShortest(s) ==
    IF Len(s) <= 21 THEN s ELSE Exponential(s, StripTrailingZeros(s))

StringOfDouble(n) == StringOfShortest(Shortest(n))

(***************************************************************************)
(* The number a string of count digits stands for, and its string: an      *)
(* integer of the model up to IntDigits digits, a double beyond.           *)
(***************************************************************************)
AsNumber(str, count) == IF count <= IntDigits THEN NumOf(str) ELSE DoubleOf(str)

AsString(n, count) == IF count <= IntDigits THEN StrOf(n) ELSE StringOfDouble(n)

(***************************************************************************)
(* str.slice(start) for one (possibly negative) start index.               *)
(***************************************************************************)
Slice(str, start) ==
    LET len  == Len(str)
        from == IF start < 0
                THEN (IF len + start < 0 THEN 0 ELSE len + start)
                ELSE (IF start > len THEN len ELSE start)
    IN  SubSeq(str, from + 1, len)

(***************************************************************************)
(* _textToSeed, index.js:32-39: the loop                                   *)
(*   for (i = 0; i < str.length; i++) sum += str.charCodeAt(i) * (i + 1)   *)
(* TextLoop(str, i, sum) is the loop from index i (0-based) with the       *)
(* accumulator sum.                                                        *)
(***************************************************************************)
RECURSIVE TextLoop(_, _, _)
TextLoop(str, i, sum) ==
    IF i < Len(str)
    THEN TextLoop(str, i + 1, sum + str[i + 1] * (i + 1))
    ELSE sum

\* faulty variant: the weight is the index i instead of i + 1
RECURSIVE TextLoop_index(_, _, _)
TextLoop_index(str, i, sum) ==
    IF i < Len(str)
    THEN TextLoop_index(str, i + 1, sum + str[i + 1] * i)
    ELSE sum

_textToSeed_index(text) == TextLoop_index(text, 0, 0)

_textToSeed(text) == TextLoop(text, 0, 0)

(***************************************************************************)
(* Math.floor and Math.abs on a number in sign / integer part / fraction   *)
(* digits form.  The result of Floor is an integer.                        *)
(***************************************************************************)
Floor(x) ==
    IF ~x.neg THEN x.int
    ELSE IF x.frac = <<>> THEN -x.int
    ELSE -(x.int + 1)

Abs(n) == IF n < 0 THEN -n ELSE n

(***************************************************************************)
(* _normalizeSeed, index.js:47-52.                                         *)
(***************************************************************************)
\* faulty variant: the zero check is missing
_normalizeSeed_nozero(raw) ==
    IF raw.tag \in {"undefined", "null"} THEN DEFAULT_SEED
    ELSE IF raw.tag = "string" THEN _textToSeed(raw.text)
    ELSE Abs(Floor(raw))

\* faulty variant: Math.floor(Math.abs(x)) instead of Math.abs(Math.floor(x))
_normalizeSeed_absfirst(raw) ==
    IF raw.tag \in {"undefined", "null"} THEN DEFAULT_SEED
    ELSE IF raw.tag = "string" THEN _textToSeed(raw.text)
    ELSE LET n == raw.int
         IN  IF n = 0 THEN DEFAULT_SEED ELSE n

\* faulty variant: an absent seed falls back to the seed of the previous call
_normalizeSeed_sticky(raw) ==
    IF raw.tag \in {"undefined", "null"}
    THEN (IF seed = 0 THEN DEFAULT_SEED ELSE seed)
    ELSE IF raw.tag = "string" THEN _textToSeed(raw.text)
    ELSE LET n == Abs(Floor(raw))
         IN  IF n = 0 THEN DEFAULT_SEED ELSE n

\* faulty variant: a number is normalized to the integer after it
_normalizeSeed_after(raw) ==
    IF raw.tag \in {"undefined", "null"} THEN DEFAULT_SEED
    ELSE IF raw.tag = "string" THEN _textToSeed(raw.text)
    ELSE Abs(Floor(raw)) + 1

_normalizeSeed(raw) ==
    IF raw.tag \in {"undefined", "null"} THEN DEFAULT_SEED
    ELSE IF raw.tag = "string" THEN _textToSeed(raw.text)
    ELSE LET n == Abs(Floor(raw))
         IN  IF n = 0 THEN DEFAULT_SEED ELSE n

(***************************************************************************)
(* Digit helpers, index.js:59-102.                                         *)
(***************************************************************************)
_digits(s) == StrOf(s)

\* d.reduce((a, b) => a + b, acc)
RECURSIVE ReduceSum(_, _)
ReduceSum(d, acc) ==
    IF d = <<>> THEN acc ELSE ReduceSum(Tail(d), acc + Head(d))

\* d.reduce((a, b) => a * b, acc)
RECURSIVE ReduceProduct(_, _)
ReduceProduct(d, acc) ==
    IF d = <<>> THEN acc ELSE ReduceProduct(Tail(d), acc * Head(d))

_digitSum(s) == ReduceSum(_digits(s), 0)

\* faulty variant: the product starts from 0
_digitProduct_zero(s) == ReduceProduct(_digits(s), 0)

_digitProduct(s) == ReduceProduct(_digits(s), 1)

_firstDigit(s) == _digits(s)[1]

_lastDigit(s) ==
    LET d == _digits(s) IN d[Len(d)]

\* faulty variant: the first n digits
_lastN_first(s, n) ==
    LET str == StrOf(s)
    IN  IF n >= Len(str) THEN s ELSE NumOf(SubSeq(str, 1, n))

_lastN(s, n) ==
    LET str == StrOf(s)
    IN  IF n >= Len(str) THEN s ELSE NumOf(Slice(str, -n))

(***************************************************************************)
(* _fillDigits, index.js:117-148.                                          *)
(***************************************************************************)
\* faulty variant: the string is taken once
Repeat_once(str, k) == IF k <= 0 THEN <<>> ELSE str

RECURSIVE Repeat(_, _)
Repeat(str, k) ==
    IF k <= 0 THEN <<>> ELSE str \o Repeat(str, k - 1)

\* faulty variant: the remainder is always taken from the last digits
_fillDigits_lastonly(s, count) ==
    LET seedStr == StrOf(s)
        seedLen == Len(seedStr)
    IN  IF count <= 0 THEN 0
        ELSE IF count < seedLen
             THEN (IF count = 1 THEN _firstDigit(s) ELSE _lastN(s, count))
        ELSE IF count = seedLen THEN s
        ELSE LET fullRepeats == count \div seedLen
                 remainder   == count % seedLen
                 body        == Repeat(seedStr, fullRepeats)
                 result      == IF remainder > 0
                                THEN body \o StrOf(_lastN(s, remainder))
                                ELSE body
             IN  AsNumber(result, count)

_fillDigits(s, count) ==
    LET seedStr == StrOf(s)
        seedLen == Len(seedStr)
    IN  IF count <= 0 THEN 0
        ELSE IF count < seedLen
             THEN (IF count = 1 THEN _firstDigit(s) ELSE _lastN(s, count))
        ELSE IF count = seedLen THEN s
        ELSE LET fullRepeats == count \div seedLen
                 remainder   == count % seedLen
                 body        == Repeat(seedStr, fullRepeats)
                 result      == IF remainder > 0
                                THEN (IF remainder = 1
                                      THEN body \o StrOf(_firstDigit(s))
                                      ELSE body \o StrOf(_lastN(s, remainder)))
                                ELSE body
             IN  AsNumber(result, count)

(***************************************************************************)
(* An optional argument with its default (digits = 3).                     *)
(***************************************************************************)
OrDefault(opt, dflt) == IF opt = <<>> THEN dflt ELSE opt[1]

(***************************************************************************)
(* pdrng, index.js:270-273: the value returned for a seed already          *)
(* normalized.                                                             *)
(***************************************************************************)
pdrng(s, digits) == _fillDigits(s, OrDefault(digits, 3))

(***************************************************************************)
(* range, index.js:300-303: the value returned for a seed already          *)
(* normalized.                                                             *)
(***************************************************************************)
\* faulty variant: the modulus is one too large
range_wide(s, min, max) == min + (s % (max - min + 2))

range(s, min, max) == min + (s % (max - min + 1))

(***************************************************************************)
(* float, index.js:285-289.  String(filled).padStart(precision, '0') is    *)
(* PadStart; Number('0.' + str) is the decimal fraction 0.str, represented *)
(* by its digits after the point without the trailing zeros.               *)
(***************************************************************************)
\* the decimal value of 0.m * 10^e
Shifted(m, e) ==
    IF e >= Len(m)
    THEN [nan |-> FALSE, whole |-> DoubleOf(m \o Zeros(e - Len(m))), frac |-> <<>>]
    ELSE [nan |-> FALSE, whole |-> StripZeros(<<0>> \o SubSeq(m, 1, e)),
          frac |-> StripTrailingZeros(SubSeq(m, e + 1, Len(m)))]

\* Number('0.' + str): str holds digits, or digits with an exponent, or is
\* no number after "0."
ParseFraction(str) ==
    LET IsDigitString(t) == \A k \in 1..Len(t) : t[k] < Dot
        es == {k \in 1..Len(str) : str[k] = Exp}
        e  == CHOOSE k \in es : TRUE
    IN  IF IsDigitString(str) THEN Shifted(str, 0)
        ELSE IF /\ es # {}
                /\ IsDigitString(SubSeq(str, 1, e - 1))
                /\ e + 2 <= Len(str)
                /\ str[e + 1] = Plus
                /\ IsDigitString(SubSeq(str, e + 2, Len(str)))
             THEN Shifted(SubSeq(str, 1, e - 1), NumOf(SubSeq(str, e + 2, Len(str))))
        ELSE [nan |-> TRUE, whole |-> <<0>>, frac |-> <<>>]

float(s, precision) ==
    LET p      == OrDefault(precision, 6)
        filled == _fillDigits(s, p)
    IN  ParseFraction(PadStart(AsString(filled, p), p))

(***************************************************************************)
(* array, index.js:315-323.  ArrayLoop(s, count, digits, i, result) is the *)
(* loop from index i with the elements pushed so far.                      *)
(***************************************************************************)
Integer(n) ==
    [tag |-> "number", neg |-> n < 0, int |-> Abs(n), frac |-> <<>>, text |-> <<>>]

RECURSIVE ArrayLoop(_, _, _, _, _)
ArrayLoop(s, count, digits, i, result) ==
    IF i < count
    THEN LET subSeed == s + i * _digitProduct(s)
         IN  ArrayLoop(s, count, digits, i + 1,
                       Append(result, _fillDigits(_normalizeSeed(Integer(subSeed)), digits)))
    ELSE result

array(s, count, digits) == ArrayLoop(s, count, OrDefault(digits, 3), 0, <<>>)

(***************************************************************************)
(* uuid, index.js:332-363.  A hexadecimal string is the sequence of its    *)
(* characters.                                                             *)
(***************************************************************************)
HexChars ==
    <<"0", "1", "2", "3", "4", "5", "6", "7", "8", "9", "a", "b", "c", "d", "e", "f">>

\* faulty variant: the digits above 9 in upper case
ToHex_upper(n) ==
    <<"0", "1", "2", "3", "4", "5", "6", "7", "8", "9", "A", "B", "C", "D", "E", "F">>[n + 1]

\* n.toString(16) for 0 <= n < 16
ToHex(n) == HexChars[n + 1]

uuid(s) ==
    LET ds      == _digitSum(s)
        dp      == _digitProduct(s)
        fd      == _firstDigit(s)
        ld      == _lastDigit(s)
        sources == <<s, ds, dp, fd, ld, s + ds, s + dp, s * fd>>
        hex     == [k \in 1..32 |->
                       LET src == sources[((k - 1) \div 4) + 1]
                           i   == (k - 1) % 4
                       IN  ToHex((Abs(src) + i * 7) % 16)]
        n       == 8 + (_digitSum(s) % 4)
        chars   == [hex EXCEPT ![13] = "4", ![17] = ToHex(n)]
    IN  SubSeq(chars, 1, 8) \o <<"-">> \o SubSeq(chars, 9, 12) \o <<"-">>
        \o SubSeq(chars, 13, 16) \o <<"-">> \o SubSeq(chars, 17, 20) \o <<"-">>
        \o SubSeq(chars, 21, 32)

(***************************************************************************)
(* oddOrEven, index.js:372-375; coin, index.js:398-401; dice,              *)
(* index.js:411-415.                                                       *)
(***************************************************************************)
COIN_SIDES == <<"heads", "tails">>

oddOrEven(s) == IF s % 2 = 0 THEN "even" ELSE "odd"

coin(s) == COIN_SIDES[(_digitSum(s) % 2) + 1]

\* faulty variant: a remainder of 0 is returned as it is
dice_zero(s, sides) == _lastDigit(s) % OrDefault(sides, 6)

dice(s, sides) ==
    LET n      == OrDefault(sides, 6)
        result == _lastDigit(s) % n
    IN  IF result = 0 THEN n ELSE result

(***************************************************************************)
(* spin, index.js:542-548.  The argument is an array (isArray) with its    *)
(* elements, or some other value.                                          *)
(***************************************************************************)
SpinThrows(arr) == ~arr.isArray \/ Len(arr.elems) = 0

\* faulty variant: the element after the one the seed selects
spin_next(s, arr) == arr.elems[((s + 1) % Len(arr.elems)) + 1]

spin(s, arr) == arr.elems[(s % Len(arr.elems)) + 1]

(***************************************************************************)
(* roll, index.js:558-578.  The notation is the sequence of its            *)
(* characters; Match is the regular expression                             *)
(* /^(\d+)d(\d+)([+-]\d+)?$/ and yields the groups of the match.           *)
(***************************************************************************)
DigitChars == <<"0", "1", "2", "3", "4", "5", "6", "7", "8", "9">>

IsDigitChar(c) == \E k \in 1..10 : DigitChars[k] = c

\* \d+
IsDigits(str) == str # <<>> /\ \A k \in 1..Len(str) : IsDigitChar(str[k])

DigitOf(c) == (CHOOSE k \in 1..10 : DigitChars[k] = c) - 1

\* parseInt(str, 10) for digits with an optional sign in front
ParseInt(str) ==
    IF str[1] = "-" THEN -NumOf([k \in 1..(Len(str) - 1) |-> DigitOf(str[k + 1])])
    ELSE IF str[1] = "+" THEN NumOf([k \in 1..(Len(str) - 1) |-> DigitOf(str[k + 1])])
    ELSE NumOf([k \in 1..Len(str) |-> DigitOf(str[k])])

\* the splits <<d, m>> of the notation: the 'd' is at d, the sign at m
\* (m = Len + 1 when there is no modifier)
Splits(str) ==
    {sp \in (1..Len(str)) \X (1..(Len(str) + 1)) :
        /\ sp[1] < sp[2]
        /\ str[sp[1]] = "d"
        /\ IsDigits(SubSeq(str, 1, sp[1] - 1))
        /\ IsDigits(SubSeq(str, sp[1] + 1, sp[2] - 1))
        /\ \/ sp[2] = Len(str) + 1
           \/ /\ str[sp[2]] \in {"+", "-"}
              /\ IsDigits(SubSeq(str, sp[2] + 1, Len(str)))}

Match(str) ==
    IF Splits(str) = {} THEN <<>>
    ELSE LET sp == CHOOSE x \in Splits(str) : TRUE
         IN  <<SubSeq(str, 1, sp[1] - 1),
               SubSeq(str, sp[1] + 1, sp[2] - 1),
               SubSeq(str, sp[2], Len(str))>>

\* the number that is not a number: x % 0, and every sum with it
NaN == "NaN"

\* ((seed + i * dp) % sides) + 1
RollValue(s, sides, i) ==
    IF sides = 0 THEN NaN ELSE ((s + i * _digitProduct(s)) % sides) + 1

RECURSIVE RollLoop(_, _, _, _, _)
RollLoop(s, count, sides, i, rolls) ==
    IF i < count
    THEN RollLoop(s, count, sides, i + 1, Append(rolls, RollValue(s, sides, i)))
    ELSE rolls

roll(s, notation) ==
    LET match    == Match(notation)
        count    == ParseInt(match[1])
        sides    == ParseInt(match[2])
        modifier == IF match[3] # <<>> THEN ParseInt(match[3]) ELSE 0
        rolls    == RollLoop(s, count, sides, 0, <<>>)
        total    == IF count > 0 /\ sides = 0 THEN NaN
                    ELSE ReduceSum(rolls, 0) + modifier
    IN  [rolls |-> rolls, modifier |-> modifier, total |-> total]

(***************************************************************************)
(* Data constants, index.js:152-258 (the dash of 'Yes - definitely.' is a  *)
(* long dash in the source).                                               *)
(***************************************************************************)
MAGIC_8_RESPONSES ==
    <<"It is certain.", "It is decidedly so.", "Without a doubt.",
      "Yes - definitely.", "You may rely on it.", "As I see it, yes.",
      "Most likely.", "Outlook good.", "Yes.", "Signs point to yes.",
      "Reply hazy, try again.", "Ask again later.", "Better not tell you now.",
      "Cannot predict now.", "Reply hazy, try again.", "Don't count on it.",
      "My reply is no.", "My sources say no.", "Outlook not so good.",
      "Very doubtful.">>

MAJOR_ARCANA ==
    <<"The Magician", "The High Priestess", "The Empress", "The Emperor",
      "The Hierophant", "The Lovers", "The Chariot", "Strength", "The Hermit",
      "Wheel of Fortune", "Justice", "The Hanged Man", "Death", "Temperance",
      "The Devil", "The Tower", "The Star", "The Moon", "The Sun", "Judgement",
      "The World", "The Fool">>

FORTUNES ==
    <<"A beautiful, smart, and loving person will be coming into your life.",
      "A dubious friend may be an enemy in camouflage.",
      "A faithful friend is a strong defense.",
      "A feather in the hand is better than a bird in the air.",
      "A fresh start will put you on your way.",
      "A golden egg of opportunity falls into your lap this month.",
      "A good friendship is often more important than a passionate romance.",
      "A good time to finish up old tasks.",
      "A lifetime friend shall soon be made.",
      "A lifetime of happiness lies ahead of you.",
      "A light heart carries you through all the hard times.",
      "A new perspective will come with the new year.",
      "A pleasant surprise is waiting for you.",
      "The answer you seek was never in doubt.",
      "A smile is your passport into the hearts of others.",
      "A smooth long journey! Great expectations.",
      "A soft voice may be awfully persuasive.",
      "A true friend is the best possession.",
      "Accept something that you cannot change, and you will feel better.",
      "All the effort you are making will ultimately pay off.">>

SUITS == <<"Spades", "Diamonds", "Hearts", "Clubs">>

RANKS ==
    <<"Ace", "2", "3", "4", "5", "6", "7", "8", "9", "10", "Jack", "Queen", "King">>

RPS_OPTIONS == <<"rock", "paper", "scissors">>

BINGO_LETTERS == <<"B", "I", "N", "G", "O">>

RED_NUMBERS == {1, 3, 5, 7, 9, 12, 14, 16, 18, 19, 21, 23, 25, 27, 30, 32, 34, 36}

ZODIAC_SIGNS ==
    <<[name |-> "Aries", month |-> 3, startDay |-> 21],
      [name |-> "Taurus", month |-> 4, startDay |-> 20],
      [name |-> "Gemini", month |-> 5, startDay |-> 21],
      [name |-> "Cancer", month |-> 6, startDay |-> 21],
      [name |-> "Leo", month |-> 7, startDay |-> 23],
      [name |-> "Virgo", month |-> 8, startDay |-> 23],
      [name |-> "Libra", month |-> 9, startDay |-> 23],
      [name |-> "Scorpio", month |-> 10, startDay |-> 23],
      [name |-> "Sagittarius", month |-> 11, startDay |-> 22],
      [name |-> "Capricorn", month |-> 12, startDay |-> 22],
      [name |-> "Aquarius", month |-> 1, startDay |-> 20],
      [name |-> "Pisces", month |-> 2, startDay |-> 19]>>

MONTH_NAMES ==
    <<"January", "February", "March", "April", "May", "June", "July", "August",
      "September", "October", "November", "December">>

(***************************************************************************)
(* a % b of JavaScript for b > 0: the remainder has the sign of a.         *)
(* arr[i] of JavaScript: undefined outside the array.                      *)
(***************************************************************************)
JsMod(a, b) == IF a >= 0 THEN a % b ELSE -((-a) % b)

At(arr, i) == IF i >= 0 /\ i < Len(arr) THEN arr[i + 1] ELSE "undefined"

\* the characters of String(n) for n >= 0
CharsOf(n) == [k \in 1..Len(StrOf(n)) |-> DigitChars[StrOf(n)[k] + 1]]

(***************************************************************************)
(* The simulation functions, index.js:384-387, 424-532 and 587-615.  The   *)
(* strings they return are sequences of pieces.                            *)
(***************************************************************************)
redOrBlack(s) == IF _digitSum(s) % 2 = 1 THEN "red" ELSE "black"

card(s) ==
    LET rankIndex == JsMod(s - 1, 13)
        suitIndex == _digitSum(s) % 4
    IN  <<At(RANKS, rankIndex), " of ", At(SUITS, suitIndex)>>

roulette(s) ==
    LET num    == _lastN(s, 2) % 37
        color  == IF num = 0 THEN "green"
                  ELSE IF num \in RED_NUMBERS THEN "red"
                  ELSE "black"
        parity == IF num = 0 THEN "zero" ELSE IF num % 2 = 0 THEN "even" ELSE "odd"
    IN  [number |-> num, color |-> color, parity |-> parity]

rps(s) == At(RPS_OPTIONS, _digitProduct(s) % 3)

magic8(s) == At(MAGIC_8_RESPONSES, s % 20)

zodiac(s) ==
    LET signIndex   == _lastN(s, 2) % 12
        sign        == ZODIAC_SIGNS[signIndex + 1]
        dayOffset   == _digitSum(s) + 1
        month       == sign.month
        day         == sign.startDay + dayOffset
        daysInMonth == <<31, 28, 31, 30, 31, 30, 31, 31, 30, 31, 30, 31>>
        overflow    == day > daysInMonth[month]
        finalDay    == IF overflow THEN day - daysInMonth[month] ELSE day
        finalMonth  == IF overflow THEN (month % 12) + 1 ELSE month
    IN  [sign |-> sign.name, month |-> MONTH_NAMES[finalMonth], day |-> finalDay]

tarot(s) == At(MAJOR_ARCANA, s % 22)

fortune(s) == At(FORTUNES, _digitSum(s) % 20)

\* Math.floor(x / 15) is \div, which rounds down for a negative x as well
bingo(s) ==
    LET num         == JsMod(_lastN(s, 2) - 1, 75) + 1
        letterIndex == (num - 1) \div 15
    IN  <<At(BINGO_LETTERS, letterIndex), "-">> \o CharsOf(num)

color(s) ==
    LET seedStr == StrOf(s)
        hex     == [k \in 1..6 |->
                       LET i        == k - 1
                           rotation == i \div Len(seedStr)
                       IN  DigitChars[seedStr[((i + rotation) % Len(seedStr)) + 1] + 1]]
    IN  <<"#">> \o hex

(***************************************************************************)
(* Inputs.                                                                 *)
(***************************************************************************)
Undefined == [tag |-> "undefined", neg |-> FALSE, int |-> 0, frac |-> <<>>, text |-> <<>>]

Null == [tag |-> "null", neg |-> FALSE, int |-> 0, frac |-> <<>>, text |-> <<>>]

NumberOf(neg, int, frac) ==
    [tag |-> "number", neg |-> neg, int |-> int, frac |-> frac, text |-> <<>>]

StringOf(text) ==
    [tag |-> "string", neg |-> FALSE, int |-> 0, frac |-> <<>>, text |-> text]

\* "brian"
Brian == <<98, 114, 105, 97, 110>>

\* 'a', 'b'
Alphabet == {97, 98}

SeedTexts ==
    {Brian} \cup UNION {[1..n -> Alphabet] : n \in 0..MaxTextLen}

ExtraSeeds == {814, 1005, 1579, 99999, 738193}

\* the fraction digits drawn: .5, .9, .05, .738193
Fractions == {<<5>>, <<9>>, <<0, 5>>, <<7, 3, 8, 1, 9, 3>>}

RawSeeds ==
    {Undefined, Null}
    \cup {StringOf(t) : t \in SeedTexts}
    \cup {NumberOf(FALSE, n, <<>>) : n \in (0..MaxSeed) \cup ExtraSeeds}
    \cup {NumberOf(TRUE, n, <<>>) : n \in {0, 1, 42, 814}}
    \cup {NumberOf(b, n, f) : b \in BOOLEAN, n \in {0, 5, 42, 814}, f \in Fractions}

DigitArgs ==
    {<<>>, <<22>>} \cup {<<n>> : n \in 10..16} \cup {<<n>> : n \in (-1)..MaxDigits}

MinBound == 0 - 2

ExtraRanges == {<<1, 6>>, <<1, 10>>, <<1, 100>>, <<10, 20>>, <<900, 1000>>}

Ranges ==
    {r \in (MinBound..MaxBound) \X (MinBound..MaxBound) : r[1] <= r[2]}
    \cup ExtraRanges

SideArgs == {<<>>, <<20>>} \cup {<<n>> : n \in 1..MaxSides}

Counts == 0..MaxCount

NotArray == [isArray |-> FALSE, elems |-> <<>>]

ArrayOf(elems) == [isArray |-> TRUE, elems |-> elems]

Choices == <<"apple", "banana", "cherry", "date">>

SpinArgs == {NotArray} \cup {ArrayOf(SubSeq(Choices, 1, n)) : n \in 0..4}

Notations ==
    {<<"2", "d", "6", "+", "3">>, <<"1", "d", "2", "0">>, <<"1", "d", "6", "-", "2">>,
     <<"3", "d", "8", "+", "2">>, <<"0", "d", "6">>, <<"a", "b", "c">>, <<"d", "6">>,
     <<"2", "d">>, <<"2", "d", "6", "+">>, <<>>, <<"1", "d", "0">>,
     <<"0", "d", "0", "-", "1">>}

\* a call: the operation and its arguments (those the operation does not
\* take hold the values below)
NoArgs ==
    [op |-> "none", raw |-> Undefined, digits |-> <<>>, min |-> 0, max |-> 0,
     sides |-> <<>>, count |-> 0, arr |-> NotArray, notation |-> <<>>]

\* the calls of each operation over the given argument sets
CallSets(Seeds, Digits, Bounds, Sides, Lengths, Arrays, Texts) ==
    <<{[NoArgs EXCEPT !.op = "pdrng", !.raw = raw, !.digits = d] :
        raw \in Seeds, d \in Digits},
      {[NoArgs EXCEPT !.op = "float", !.raw = raw, !.digits = d] :
        raw \in Seeds, d \in Digits},
      {[NoArgs EXCEPT !.op = "range", !.raw = raw, !.min = r[1], !.max = r[2]] :
        raw \in Seeds, r \in Bounds},
      {[NoArgs EXCEPT !.op = "array", !.raw = raw, !.count = c, !.digits = d] :
        raw \in Seeds, c \in Lengths, d \in Digits},
      {[NoArgs EXCEPT !.op = "uuid", !.raw = raw] : raw \in Seeds},
      {[NoArgs EXCEPT !.op = "oddOrEven", !.raw = raw] : raw \in Seeds},
      {[NoArgs EXCEPT !.op = "coin", !.raw = raw] : raw \in Seeds},
      {[NoArgs EXCEPT !.op = "dice", !.raw = raw, !.sides = n] :
        raw \in Seeds, n \in Sides},
      {[NoArgs EXCEPT !.op = "spin", !.raw = raw, !.arr = a] :
        raw \in Seeds, a \in Arrays},
      {[NoArgs EXCEPT !.op = "roll", !.raw = raw, !.notation = n] :
        raw \in Seeds, n \in Texts},
      {[NoArgs EXCEPT !.op = op, !.raw = raw] :
        op \in {"redOrBlack", "card", "roulette", "rps", "magic8"}, raw \in Seeds},
      {[NoArgs EXCEPT !.op = op, !.raw = raw] :
        op \in {"zodiac", "tarot", "fortune", "bingo", "color"}, raw \in Seeds}>>

\* a seed of nine nines, whose digit sum is 81: drawn for zodiac only
LargeSeeds == {NumberOf(FALSE, 999999999, <<>>)}

Calls ==
    CallSets(RawSeeds, DigitArgs, Ranges, SideArgs, Counts, SpinArgs, Notations)
        \o <<{[NoArgs EXCEPT !.op = "zodiac", !.raw = raw] : raw \in LargeSeeds}>>

\* the calls of the repeated-call harness
DetSeeds ==
    {Undefined, StringOf(<<97, 98>>), NumberOf(TRUE, 42, <<5>>)}

DetCalls ==
    CallSets(DetSeeds, {<<>>, <<4>>}, {<<1, 6>>}, {<<>>}, {2},
              {NotArray, ArrayOf(Choices)},
              {<<"a", "b", "c">>, <<"2", "d", "6", "+", "3">>})

(***************************************************************************)
(* Returned values: kind "number" (val holds the number), "fraction" (val  *)
(* holds the digits after "0."), "decimal" (a number of 1 or more: text    *)
(* holds the digits before the point, val those after it), "NaN", "array"  *)
(* (val holds the elements),                                               *)
(* "string" (text holds the pieces of the string), "roll" (val holds the   *)
(* rolls), "roulette" (val holds the number, text the color and the        *)
(* parity), "zodiac" (an object: text holds the sign and the month, val    *)
(* the day of the date) and "throw" (text holds the message).              *)
(***************************************************************************)
NoRet == [kind |-> "none", val |-> <<>>, text |-> <<>>, modifier |-> 0, total |-> 0]

NumRet(n) == [NoRet EXCEPT !.kind = "number", !.val = <<n>>]

FractionRet(d) == [NoRet EXCEPT !.kind = "fraction", !.val = d]

FloatRet(r) ==
    IF r.nan THEN [NoRet EXCEPT !.kind = "NaN"]
    ELSE IF r.whole = <<0>> THEN FractionRet(r.frac)
    ELSE [NoRet EXCEPT !.kind = "decimal", !.text = r.whole, !.val = r.frac]

ArrayRet(a) == [NoRet EXCEPT !.kind = "array", !.val = a]

StringRet(t) == [NoRet EXCEPT !.kind = "string", !.text = t]

RollRet(r) ==
    [NoRet EXCEPT !.kind = "roll", !.val = r.rolls, !.modifier = r.modifier,
                  !.total = r.total]

RouletteRet(r) ==
    [NoRet EXCEPT !.kind = "roulette", !.val = <<r.number>>, !.text = <<r.color, r.parity>>]

\* { sign, date: `${monthName} ${finalDay}` }
ZodiacRet(r) ==
    [NoRet EXCEPT !.kind = "zodiac", !.text = <<r.sign, r.month, " ">>, !.val = <<r.day>>]

Throw(message) == [NoRet EXCEPT !.kind = "throw", !.text = <<message>>]

\* new Error(`Invalid dice notation: "${notation}"`)
InvalidNotation(notation) ==
    [NoRet EXCEPT !.kind = "throw",
                  !.text = <<"Invalid dice notation", ": \"">> \o notation \o <<"\"">>]

NoSaved == [set |-> FALSE, call |-> NoArgs, ret |-> NoRet, between |-> FALSE]

(***************************************************************************)
(* State machine.  pc = "ready": the call is about to run; pc = "done":    *)
(* it has returned or thrown ret.  seed is the normalized seed of the most *)
(* recent call that normalized one (0 before that).  saved is a call and   *)
(* its result kept by the harness for comparison with a later identical    *)
(* call; saved.between tells that a different call was issued since.       *)
(***************************************************************************)
Init ==
    /\ pc = "ready"
    /\ \E k \in 1..Len(Calls) : call \in Calls[k]
    /\ seed = 0
    /\ ret = NoRet
    /\ saved = NoSaved

InitDet ==
    /\ pc = "ready"
    /\ \E k \in 1..Len(DetCalls) : call \in DetCalls[k]
    /\ seed = 0
    /\ ret = NoRet
    /\ saved = NoSaved

Pdrng ==
    /\ pc = "ready"
    /\ call.op = "pdrng"
    /\ seed' = _normalizeSeed(call.raw)
    /\ ret' = NumRet(pdrng(seed', call.digits))
    /\ pc' = "done"
    /\ UNCHANGED <<call, saved>>

Float ==
    /\ pc = "ready"
    /\ call.op = "float"
    /\ seed' = _normalizeSeed(call.raw)
    /\ ret' = FloatRet(float(seed', call.digits))
    /\ pc' = "done"
    /\ UNCHANGED <<call, saved>>

Range ==
    /\ pc = "ready"
    /\ call.op = "range"
    /\ seed' = _normalizeSeed(call.raw)
    /\ ret' = NumRet(range(seed', call.min, call.max))
    /\ pc' = "done"
    /\ UNCHANGED <<call, saved>>

Array ==
    /\ pc = "ready"
    /\ call.op = "array"
    /\ seed' = _normalizeSeed(call.raw)
    /\ ret' = ArrayRet(array(seed', call.count, call.digits))
    /\ pc' = "done"
    /\ UNCHANGED <<call, saved>>

Uuid ==
    /\ pc = "ready"
    /\ call.op = "uuid"
    /\ seed' = _normalizeSeed(call.raw)
    /\ ret' = StringRet(uuid(seed'))
    /\ pc' = "done"
    /\ UNCHANGED <<call, saved>>

OddOrEven ==
    /\ pc = "ready"
    /\ call.op = "oddOrEven"
    /\ seed' = _normalizeSeed(call.raw)
    /\ ret' = StringRet(<<oddOrEven(seed')>>)
    /\ pc' = "done"
    /\ UNCHANGED <<call, saved>>

Coin ==
    /\ pc = "ready"
    /\ call.op = "coin"
    /\ seed' = _normalizeSeed(call.raw)
    /\ ret' = StringRet(<<coin(seed')>>)
    /\ pc' = "done"
    /\ UNCHANGED <<call, saved>>

Dice ==
    /\ pc = "ready"
    /\ call.op = "dice"
    /\ seed' = _normalizeSeed(call.raw)
    /\ ret' = NumRet(dice(seed', call.sides))
    /\ pc' = "done"
    /\ UNCHANGED <<call, saved>>

\* spin checks its argument before it normalizes the seed
Spin ==
    /\ pc = "ready"
    /\ call.op = "spin"
    /\ IF SpinThrows(call.arr)
       THEN /\ ret' = Throw("spin() requires a non-empty array")
            /\ UNCHANGED seed
       ELSE /\ seed' = _normalizeSeed(call.raw)
            /\ ret' = StringRet(<<spin(seed', call.arr)>>)
    /\ pc' = "done"
    /\ UNCHANGED <<call, saved>>

\* roll normalizes the seed before it matches the notation
Roll ==
    /\ pc = "ready"
    /\ call.op = "roll"
    /\ seed' = _normalizeSeed(call.raw)
    /\ IF Match(call.notation) = <<>>
       THEN ret' = InvalidNotation(call.notation)
       ELSE ret' = RollRet(roll(seed', call.notation))
    /\ pc' = "done"
    /\ UNCHANGED <<call, saved>>

RedOrBlack ==
    /\ pc = "ready"
    /\ call.op = "redOrBlack"
    /\ seed' = _normalizeSeed(call.raw)
    /\ ret' = StringRet(<<redOrBlack(seed')>>)
    /\ pc' = "done"
    /\ UNCHANGED <<call, saved>>

Card ==
    /\ pc = "ready"
    /\ call.op = "card"
    /\ seed' = _normalizeSeed(call.raw)
    /\ ret' = StringRet(card(seed'))
    /\ pc' = "done"
    /\ UNCHANGED <<call, saved>>

Roulette ==
    /\ pc = "ready"
    /\ call.op = "roulette"
    /\ seed' = _normalizeSeed(call.raw)
    /\ ret' = RouletteRet(roulette(seed'))
    /\ pc' = "done"
    /\ UNCHANGED <<call, saved>>

Rps ==
    /\ pc = "ready"
    /\ call.op = "rps"
    /\ seed' = _normalizeSeed(call.raw)
    /\ ret' = StringRet(<<rps(seed')>>)
    /\ pc' = "done"
    /\ UNCHANGED <<call, saved>>

Magic8 ==
    /\ pc = "ready"
    /\ call.op = "magic8"
    /\ seed' = _normalizeSeed(call.raw)
    /\ ret' = StringRet(<<magic8(seed')>>)
    /\ pc' = "done"
    /\ UNCHANGED <<call, saved>>

Zodiac ==
    /\ pc = "ready"
    /\ call.op = "zodiac"
    /\ seed' = _normalizeSeed(call.raw)
    /\ ret' = ZodiacRet(zodiac(seed'))
    /\ pc' = "done"
    /\ UNCHANGED <<call, saved>>

Tarot ==
    /\ pc = "ready"
    /\ call.op = "tarot"
    /\ seed' = _normalizeSeed(call.raw)
    /\ ret' = StringRet(<<tarot(seed')>>)
    /\ pc' = "done"
    /\ UNCHANGED <<call, saved>>

Fortune ==
    /\ pc = "ready"
    /\ call.op = "fortune"
    /\ seed' = _normalizeSeed(call.raw)
    /\ ret' = StringRet(<<fortune(seed')>>)
    /\ pc' = "done"
    /\ UNCHANGED <<call, saved>>

Bingo ==
    /\ pc = "ready"
    /\ call.op = "bingo"
    /\ seed' = _normalizeSeed(call.raw)
    /\ ret' = StringRet(bingo(seed'))
    /\ pc' = "done"
    /\ UNCHANGED <<call, saved>>

Color ==
    /\ pc = "ready"
    /\ call.op = "color"
    /\ seed' = _normalizeSeed(call.raw)
    /\ ret' = StringRet(color(seed'))
    /\ pc' = "done"
    /\ UNCHANGED <<call, saved>>

\* the harness issues another call, and may keep the finished one
Reissue ==
    /\ pc = "done"
    /\ pc' = "ready"
    /\ \E k \in 1..Len(DetCalls) : call' \in DetCalls[k]
    /\ ret' = NoRet
    /\ saved' \in
           {[saved EXCEPT !.between = @ \/ (saved.set /\ call' # saved.call)],
            [set |-> TRUE, call |-> call, ret |-> ret, between |-> FALSE]}
    /\ UNCHANGED seed

Next ==
    \/ Pdrng
    \/ Float
    \/ Range
    \/ Array
    \/ Uuid
    \/ OddOrEven
    \/ Coin
    \/ Dice
    \/ Spin
    \/ Roll
    \/ RedOrBlack
    \/ Card
    \/ Roulette
    \/ Rps
    \/ Magic8
    \/ Zodiac
    \/ Tarot
    \/ Fortune
    \/ Bingo
    \/ Color

NextDet ==
    \/ Next
    \/ Reissue

Spec == Init /\ [][Next]_vars

SpecDet == InitDet /\ [][NextDet]_vars

(***************************************************************************)
(* Helpers of the properties.                                              *)
(***************************************************************************)
IsNumber(raw) == raw.tag = "number"

IsZero(raw) == IsNumber(raw) /\ raw.int = 0 /\ raw.frac = <<>>

Returned(op) == pc = "done" /\ call.op = op

\* the call has normalized its seed (spin throws before it does)
Normalized == pc = "done" /\ ~(call.op = "spin" /\ SpinThrows(call.arr))

\* sum over the 1-based positions k of text[k] * k, taken from the last character
RECURSIVE PositionalSum(_)
PositionalSum(text) ==
    IF text = <<>> THEN 0
    ELSE PositionalSum(SubSeq(text, 1, Len(text) - 1)) + text[Len(text)] * Len(text)

\* the number of decimal digits of n >= 0
RECURSIVE DigitCount(_)
DigitCount(n) == IF n < 10 THEN 1 ELSE 1 + DigitCount(n \div 10)

Pow10(n) == NumOf(<<1>> \o [i \in 1..n |-> 0])

\* the priority list of spec 4.4: the full seed, the last d-1 .. last 2 digits,
\* the first digit, the last digit, the middle digits left to right
PriorityList(s) ==
    LET d == DigitCount(s)
        digit(k) == (s \div Pow10(d - k)) % 10
    IN  <<s>>
        \o [i \in 1..(IF d > 2 THEN d - 2 ELSE 0) |-> s % Pow10(d - i)]
        \o <<digit(1), digit(d)>>
        \o [i \in 1..(IF d > 2 THEN d - 2 ELSE 0) |-> digit(i + 1)]

\* the k-th decimal digit of n from the most significant one (k in 1..DigitCount(n))
DigitAt(n, k) == (n \div Pow10(DigitCount(n) - k)) % 10

\* the sum and the product of the decimal digits of n >= 0, by arithmetic
RECURSIVE SumOfDigits(_)
SumOfDigits(n) == IF n < 10 THEN n ELSE (n % 10) + SumOfDigits(n \div 10)

RECURSIVE ProductOfDigits(_)
ProductOfDigits(n) == IF n < 10 THEN n ELSE (n % 10) * ProductOfDigits(n \div 10)

\* the string of spec 4.3 for count > d: the digits of the seed repeated
\* count \div d times, then the first digit (r = 1) or the digits of the last
\* r digits taken as a number (r >= 2), for r = count % d
ReferenceString(s, count) ==
    LET d    == DigitCount(s)
        r    == count % d
        full == [k \in 1..(d * (count \div d)) |-> DigitAt(s, ((k - 1) % d) + 1)]
    IN  IF r = 0 THEN full
        ELSE IF r = 1 THEN Append(full, DigitAt(s, 1))
        ELSE full \o StrOf(s % Pow10(r))

\* the value of spec 4.3 for count <= d
ReferenceShort(s, count) ==
    IF count = DigitCount(s) THEN s
    ELSE IF count = 1 THEN DigitAt(s, 1)
    ELSE s % Pow10(count)

InRange(x, min, max) == min <= x /\ x <= max

\* the first element of list that lies in [min, max] (list has one)
FirstInRange(list, min, max) ==
    LET k == CHOOSE i \in 1..Len(list) :
                 /\ InRange(list[i], min, max)
                 /\ \A j \in 1..(i - 1) : ~InRange(list[j], min, max)
    IN  list[k]

(***************************************************************************)
(* C1: determinism.  A call returns (or throws) what an earlier call of    *)
(* the same operation with the same seed and arguments returned, whatever  *)
(* calls were made in between.                                             *)
(***************************************************************************)
C1_Determinism ==
    (pc = "done" /\ saved.set /\ saved.call = call) => ret = saved.ret

C1_Witness ==
    /\ pc = "done"
    /\ saved.set
    /\ saved.between
    /\ saved.call = call
    /\ call.op = "array"
    /\ call.raw = Undefined
    /\ ret = ArrayRet(<<8148, 8468>>)

(***************************************************************************)
(* C2: an absent (undefined), null or numeric zero seed normalizes to the  *)
(* default seed 814, and pdrng(3) with such a seed returns 814.            *)
(***************************************************************************)
C2_DefaultSeed ==
    (Normalized /\ (call.raw \in {Undefined, Null} \/ IsZero(call.raw)))
        => /\ seed = 814
           /\ (call.op = "pdrng" /\ call.digits = <<3>>) => ret = NumRet(814)

C2_Witness ==
    /\ Returned("pdrng")
    /\ call.raw = NumberOf(FALSE, 0, <<>>)
    /\ call.digits = <<3>>
    /\ ret = NumRet(814)

(***************************************************************************)
(* C3: for every accepted raw seed (absent, number, text including the     *)
(* empty string) the normalized seed is a strictly positive integer.       *)
(***************************************************************************)
C3_SeedPositive == Normalized => seed >= 1

C6_FractionSeed ==
    (/\ Returned("pdrng")
     /\ IsNumber(call.raw) /\ ~call.raw.neg /\ call.raw.int = 0
     /\ call.raw.frac # <<>>
     /\ call.digits = <<3>>)
        => /\ ret = NumRet(_fillDigits(NumOf(call.raw.frac), 3))
           /\ call.raw.frac = <<7, 3, 8, 1, 9, 3>> => ret = NumRet(193)
           /\ call.raw.frac = <<5>> => ret = NumRet(555)

(***************************************************************************)
(* C7: for every canonical seed (>= 1) and digit count >= 1 the value      *)
(* pdrng(count, {seed}) has exactly count decimal digits; for count <= 0   *)
(* it is 0.                                                                *)
(***************************************************************************)
C7_ExactDigits ==
    (Returned("pdrng") /\ seed >= 1)
        => LET count == OrDefault(call.digits, 3)
           IN  IF count <= 0 THEN ret = NumRet(0)
               ELSE (IF count <= IntDigits THEN DigitCount(ret.val[1])
                     ELSE Len(ret.val[1])) = count

(***************************************************************************)
(* C8: with the default seed pdrng(n) returns 8, 14, 814, 8148, 81414,     *)
(* 814814 for n = 1..6 and 0 for n = 0; pdrng() returns 814.               *)
(***************************************************************************)
C8_DefaultFill ==
    (Returned("pdrng") /\ call.raw = Undefined)
        => /\ call.digits = <<>> => ret = NumRet(814)
           /\ call.digits = <<0>> => ret = NumRet(0)
           /\ call.digits = <<1>> => ret = NumRet(8)
           /\ call.digits = <<2>> => ret = NumRet(14)
           /\ call.digits = <<3>> => ret = NumRet(814)
           /\ call.digits = <<4>> => ret = NumRet(8148)
           /\ call.digits = <<5>> => ret = NumRet(81414)
           /\ call.digits = <<6>> => ret = NumRet(814814)

C8_Witness ==
    /\ Returned("pdrng")
    /\ call.raw = Undefined
    /\ call.digits = <<5>>
    /\ ret = NumRet(81414)

(***************************************************************************)
(* C9: for every seed and integers min <= max, range(min, max, {seed})     *)
(* returns an integer r with min <= r <= max.                              *)
(***************************************************************************)
C9_RangeBounds ==
    (Returned("range") /\ call.min <= call.max)
        => /\ ret.kind = "number"
           /\ InRange(ret.val[1], call.min, call.max)

C9_Witness ==
    /\ Returned("range")
    /\ call.min < call.max
    /\ ret = NumRet(call.max)

(***************************************************************************)
(* C10: range(min, max, {seed}) returns the first element of the seed's    *)
(* priority list that lies in [min, max]; with the default seed            *)
(* range(1, 100) = 14 and range(1, 6) = 4.                                 *)
(***************************************************************************)
C10_RangePriority ==
    (/\ Returned("range")
     /\ seed >= 1
     /\ \E i \in 1..Len(PriorityList(seed)) :
            InRange(PriorityList(seed)[i], call.min, call.max))
        => ret = NumRet(FirstInRange(PriorityList(seed), call.min, call.max))

(***************************************************************************)
(* C11: for every die with sides >= 1 and every seed, dice(sides, {seed})  *)
(* returns an integer in 1..sides, never 0 and never more than sides.      *)
(***************************************************************************)
C11_DiceBounds ==
    (Returned("dice") /\ OrDefault(call.sides, 6) >= 1)
        => /\ ret.kind = "number"
           /\ ret.val[1] \in 1..OrDefault(call.sides, 6)

\* the last digit is a multiple of the sides: the die shows its highest face
C11_Witness ==
    /\ Returned("dice")
    /\ call.sides = <<5>>
    /\ seed = 10
    /\ ret = NumRet(5)

(***************************************************************************)
(* C12: dice(sides, {seed}) returns the first element of the seed's        *)
(* priority list that lies in 1..sides: dice(6, {seed: 10}) = 1,           *)
(* dice(20) = 14 with the default seed and dice(6, {seed: 42}) = 4.        *)
(***************************************************************************)
C12_DicePriority ==
    (/\ Returned("dice")
     /\ seed >= 1
     /\ \E i \in 1..Len(PriorityList(seed)) :
            InRange(PriorityList(seed)[i], 1, OrDefault(call.sides, 6)))
        => /\ ret = NumRet(FirstInRange(PriorityList(seed), 1, OrDefault(call.sides, 6)))
           /\ (seed = 10 /\ call.sides = <<6>>) => ret = NumRet(1)
           /\ (seed = 814 /\ call.sides = <<20>>) => ret = NumRet(14)
           /\ (seed = 42 /\ call.sides = <<6>>) => ret = NumRet(4)

(***************************************************************************)
(* C13: for every canonical seed (>= 1) digits(seed) is the sequence of    *)
(* its decimal digits from the most significant one, digitSum their sum,   *)
(* digitProduct their product, firstDigit the first and lastDigit the last *)
(* of them; for 814 these are 13, 32, 8 and 4.  coin and uuid, which use   *)
(* them, return accordingly.                                               *)
(***************************************************************************)
C13_DigitFacts ==
    (Normalized /\ seed >= 1)
        => /\ Len(_digits(seed)) = DigitCount(seed)
           /\ \A k \in 1..DigitCount(seed) : _digits(seed)[k] = DigitAt(seed, k)
           /\ _digitSum(seed) = SumOfDigits(seed)
           /\ _digitProduct(seed) = ProductOfDigits(seed)
           /\ _firstDigit(seed) = DigitAt(seed, 1)
           /\ _lastDigit(seed) = seed % 10
           /\ seed = 814 => /\ _digits(seed) = <<8, 1, 4>>
                            /\ _digitSum(seed) = 13
                            /\ _digitProduct(seed) = 32
                            /\ _firstDigit(seed) = 8
                            /\ _lastDigit(seed) = 4
           /\ call.op = "coin" => ret = StringRet(<<COIN_SIDES[(SumOfDigits(seed) % 2) + 1]>>)
           /\ call.op = "uuid" => /\ ret.text[5] = ToHex(SumOfDigits(seed) % 16)
                                  /\ ret.text[10] = ToHex(ProductOfDigits(seed) % 16)
                                  /\ ret.text[16] = ToHex((DigitAt(seed, 1) + 7) % 16)
                                  /\ ret.text[21] = ToHex(((seed % 10) + 7) % 16)

C13_Witness ==
    /\ Returned("uuid")
    /\ seed = 814
    /\ _digitSum(seed) = 13
    /\ _digitProduct(seed) = 32
    /\ ret.text[5] = "d"
    /\ ret.text[10] = "0"

(***************************************************************************)
(* C14: array(count, digits, {seed}) returns a list of exactly count       *)
(* elements, and element i (0-based) is                                    *)
(* fill(normalize(seed + i * digitProduct(seed)), digits); with the        *)
(* default seed array(3, 2) = [14, 46, 78], and every element has at most  *)
(* `digits` decimal digits when digits >= 1.                               *)
(***************************************************************************)
C14_ArrayElements ==
    Returned("array")
        => LET digits == OrDefault(call.digits, 3)
               sub(i) == _normalizeSeed(Integer(seed + i * ProductOfDigits(seed)))
               len(x) == IF digits <= IntDigits THEN DigitCount(x) ELSE Len(x)
           IN  /\ ret.kind = "array"
               /\ Len(ret.val) = call.count
               /\ \A i \in 0..(call.count - 1) :
                      /\ ret.val[i + 1] = _fillDigits(sub(i), digits)
                      /\ digits >= 1 => len(ret.val[i + 1]) <= digits
               /\ (call.raw = Undefined /\ call.count = 3 /\ digits = 2)
                      => ret.val = <<14, 46, 78>>

(***************************************************************************)
(* C15: for every seed and precision >= 1, float(precision, {seed}) is     *)
(* fill(seed, precision) / 10^precision, a number r with 0 <= r < 1 (its   *)
(* digits after "0.", taken as a number of precision digits, are the       *)
(* filled integer); float() = 0.814814 and float(3) = 0.814 with the       *)
(* default seed.                                                           *)
(***************************************************************************)
C15_FloatValue ==
    (Returned("float") /\ OrDefault(call.digits, 6) >= 1)
        => LET p == OrDefault(call.digits, 6)
           IN  /\ ret.kind = "fraction"
               /\ Len(ret.val) <= p
               /\ AsNumber(ret.val \o Zeros(p - Len(ret.val)), p) = _fillDigits(seed, p)
               /\ (call.raw = Undefined /\ call.digits = <<>>)
                      => ret = FractionRet(<<8, 1, 4, 8, 1, 4>>)
               /\ (call.raw = Undefined /\ call.digits = <<3>>)
                      => ret = FractionRet(<<8, 1, 4>>)

(***************************************************************************)
(* C16: spin(arr, {seed}) throws 'spin() requires a non-empty array' when  *)
(* arr is not an array or is empty; otherwise it returns the element of    *)
(* arr at index seed mod length(arr) (0-based), an element of arr; with    *)
(* the default seed and four choices that is index 2.                      *)
(***************************************************************************)
C16_Spin ==
    Returned("spin")
        => LET arr == call.arr.elems
           IN  IF ~call.arr.isArray \/ arr = <<>>
               THEN ret = Throw("spin() requires a non-empty array")
               ELSE /\ ret.kind = "string"
                    /\ ret.text = <<arr[(seed % Len(arr)) + 1]>>
                    /\ \E k \in 1..Len(arr) : ret.text[1] = arr[k]
                    /\ (call.raw = Undefined /\ Len(arr) = 4) => ret.text[1] = arr[3]

C16_Witness ==
    /\ Returned("spin")
    /\ call.raw = Undefined
    /\ call.arr = ArrayOf(Choices)
    /\ ret = StringRet(<<"cherry">>)

(***************************************************************************)
(* C17: roll("NdS[+-]M", {seed}) throws 'Invalid dice notation' when the   *)
(* text is not of that form; otherwise it returns exactly N rolls, each an *)
(* integer in 1..S, the modifier M (0 when absent, negative for '-') and   *)
(* total = sum of the rolls + modifier; roll('2d6+3') with the default     *)
(* seed is rolls [5, 1], modifier 3, total 9.                              *)
(***************************************************************************)
C17_Roll ==
    Returned("roll")
        => LET text == call.notation
               d    == CHOOSE k \in 1..Len(text) : text[k] = "d"
               m    == IF \E k \in 1..Len(text) : text[k] \in {"+", "-"}
                       THEN CHOOSE k \in 1..Len(text) : text[k] \in {"+", "-"}
                       ELSE Len(text) + 1
               form == /\ \E k \in 1..Len(text) : text[k] = "d"
                       /\ d < m
                       /\ IsDigits(SubSeq(text, 1, d - 1))
                       /\ IsDigits(SubSeq(text, d + 1, m - 1))
                       /\ m <= Len(text) => IsDigits(SubSeq(text, m + 1, Len(text)))
               N    == ParseInt(SubSeq(text, 1, d - 1))
               S    == ParseInt(SubSeq(text, d + 1, m - 1))
               M    == IF m > Len(text) THEN 0
                       ELSE IF text[m] = "-" THEN -ParseInt(SubSeq(text, m + 1, Len(text)))
                       ELSE ParseInt(SubSeq(text, m + 1, Len(text)))
           IN  IF ~form
               THEN ret.kind = "throw" /\ ret.text[1] = "Invalid dice notation"
               ELSE /\ ret.kind = "roll"
                    /\ Len(ret.val) = N
                    /\ \A i \in 1..N : S >= 1 /\ ret.val[i] \in 1..S
                    /\ ret.modifier = M
                    /\ ret.total = ReduceSum(ret.val, 0) + M
                    /\ (call.raw = Undefined /\ text = <<"2", "d", "6", "+", "3">>)
                           => ret.val = <<5, 1>> /\ ret.modifier = 3 /\ ret.total = 9

(***************************************************************************)
(* C18: for every seed, bingo({seed}) returns a valid bingo call "L-n": n  *)
(* is an integer in 1..75 and L is the letter of BINGO at index            *)
(* floor((n - 1) / 15); also for seeds whose last two digits are 00.       *)
(***************************************************************************)
C18_BingoCall ==
    Returned("bingo")
        => \E n \in 1..75 :
               ret = StringRet(<<BINGO_LETTERS[((n - 1) \div 15) + 1], "-">> \o CharsOf(n))

(***************************************************************************)
(* C19: with the default seed 814 every simulation function returns its    *)
(* documented value: coin 'tails', dice 4, card '8 of Diamonds', roulette  *)
(* {number 14, color red, parity even}, rps 'scissors', magic8 'Reply      *)
(* hazy, try again.', zodiac 'Gemini', tarot 'The Magician', fortune 'The  *)
(* answer you seek was never in doubt.', bingo 'B-14', color '#a81414',    *)
(* oddOrEven 'even', redOrBlack 'red'.                                     *)
(***************************************************************************)
C19_DefaultValues ==
    (pc = "done" /\ call.raw = Undefined)
        => /\ call.op = "coin" => ret = StringRet(<<"tails">>)
           /\ (call.op = "dice" /\ call.sides = <<>>) => ret = NumRet(4)
           /\ call.op = "card" => ret = StringRet(<<"8", " of ", "Diamonds">>)
           /\ call.op = "roulette"
                => ret = RouletteRet([number |-> 14, color |-> "red", parity |-> "even"])
           /\ call.op = "rps" => ret = StringRet(<<"scissors">>)
           /\ call.op = "magic8" => ret = StringRet(<<"Reply hazy, try again.">>)
           /\ call.op = "zodiac" => ret = StringRet(<<"Gemini">>)
           /\ call.op = "tarot" => ret = StringRet(<<"The Magician">>)
           /\ call.op = "fortune"
                => ret = StringRet(<<"The answer you seek was never in doubt.">>)
           /\ call.op = "bingo" => ret = StringRet(<<"B", "-", "1", "4">>)
           /\ call.op = "color" => ret = StringRet(<<"#", "a", "8", "1", "4", "1", "4">>)
           /\ call.op = "oddOrEven" => ret = StringRet(<<"even">>)
           /\ call.op = "redOrBlack" => ret = StringRet(<<"red">>)

(***************************************************************************)
(* C20: for every seed, uuid({seed}) is a string of the form 8-4-4-4-12 of *)
(* lowercase hexadecimal characters: 36 characters with '-' at the 9th,    *)
(* 14th, 19th and 24th; the third group starts with '4' and the fourth     *)
(* with one of 8, 9, a, b.                                                 *)
(***************************************************************************)
C20_UuidFormat ==
    Returned("uuid")
        => LET text   == ret.text
               dashes == {9, 14, 19, 24}
               hex    == {"0", "1", "2", "3", "4", "5", "6", "7", "8", "9",
                          "a", "b", "c", "d", "e", "f"}
           IN  /\ ret.kind = "string"
               /\ Len(text) = 36
               /\ \A k \in 1..36 : IF k \in dashes THEN text[k] = "-" ELSE text[k] \in hex
               /\ text[15] = "4"
               /\ text[20] \in {"8", "9", "a", "b"}

\* the UUID of the default seed: e5c3d4b2-07e5-4f6d-9b29-b290e5c307e5
C20_Witness ==
    /\ Returned("uuid")
    /\ call.raw = Undefined
    /\ SubSeq(ret.text, 1, 8) = <<"e", "5", "c", "3", "d", "4", "b", "2">>
    /\ SubSeq(ret.text, 15, 20) = <<"4", "f", "6", "d", "-", "9">>

C22_LastN ==
    (Normalized /\ seed >= 1)
        => /\ \A n \in 1..MaxDigits :
                  /\ n >= DigitCount(seed) => _lastN(seed, n) = seed
                  /\ n < DigitCount(seed) => /\ _lastN(seed, n) = seed % Pow10(n)
                                             /\ _lastN(seed, n) < Pow10(n)
                  /\ _lastN(seed, n) <= seed
           /\ seed = 105 => _lastN(seed, 2) = 5
           /\ seed = 814 => _lastN(seed, 2) = 14
           /\ (/\ call.op = "pdrng"
               /\ 1 < OrDefault(call.digits, 3)
               /\ OrDefault(call.digits, 3) < DigitCount(seed))
                  => ret = NumRet(seed % Pow10(OrDefault(call.digits, 3)))
           /\ call.op = "roulette" => ret.val = <<(seed % 100) % 37>>

C22_Witness ==
    /\ Returned("pdrng")
    /\ seed = 1005
    /\ call.digits = <<2>>
    /\ _lastN(seed, 2) = 5
    /\ ret = NumRet(5)

(***************************************************************************)
(* C23: when no element of the seed's priority list lies in [min, max],    *)
(* range(min, max, {seed}) returns min + (seed mod (max - min + 1)).       *)
(***************************************************************************)
C23_RangeFallback ==
    (/\ Returned("range")
     /\ seed >= 1
     /\ call.min <= call.max
     /\ \A i \in 1..Len(PriorityList(seed)) :
            ~InRange(PriorityList(seed)[i], call.min, call.max))
        => ret = NumRet(call.min + (seed % (call.max - call.min + 1)))

\* no element of [814, 14, 8, 4, 1] lies in [900, 1000]: 900 + 814 mod 101
C23_Witness ==
    /\ Returned("range")
    /\ seed = 814
    /\ call.min = 900
    /\ call.max = 1000
    /\ ret = NumRet(906)

C25_Idempotent ==
    (/\ Normalized
     /\ IsNumber(call.raw) /\ ~call.raw.neg /\ call.raw.frac = <<>>
     /\ call.raw.int >= 1)
        => /\ seed = call.raw.int
           /\ _normalizeSeed(Integer(seed)) = seed
           /\ (call.op = "array" /\ call.count >= 1)
                  => ret.val[1] = _fillDigits(seed, OrDefault(call.digits, 3))

C25_Witness ==
    /\ Returned("array")
    /\ call.raw = NumberOf(FALSE, 42, <<>>)
    /\ call.count = 1
    /\ call.digits = <<>>
    /\ seed = 42
    /\ ret = ArrayRet(<<424>>)

\* the number of days of a month, February counted with its leap day
DaysOfMonth(name) ==
    LET k == CHOOSE i \in 1..12 : MONTH_NAMES[i] = name
    IN  <<31, 29, 31, 30, 31, 30, 31, 31, 30, 31, 30, 31>>[k]

(***************************************************************************)
(* C26: for every canonical seed, zodiac({seed}) returns one of the 12     *)
(* sign names and a date that is a real calendar day: the day number is    *)
(* between 1 and the number of days of the reported month, also for seeds  *)
(* with a large digit sum (e.g. 999999999).                                *)
(***************************************************************************)
C26_ZodiacDate ==
    (Returned("zodiac") /\ seed >= 1)
        => /\ ret.kind = "zodiac"
           /\ \E i \in 1..12 : ret.text[1] = ZODIAC_SIGNS[i].name
           /\ \E i \in 1..12 : ret.text[2] = MONTH_NAMES[i]
           /\ ret.val[1] \in 1..DaysOfMonth(ret.text[2])

====
